---------------------------- MODULE Spec2Model ----------------------------
(***************************************************************************)
(* A model of the pick-frame argument library (src/lib/arg): the lexer of  *)
(* the time-expression language (lexer.rs), its optimizer and validator,   *)
(* the orchestrator parse() and the evaluators get_from_timestamp /        *)
(* get_to_timestamp (lib.rs).                                              *)
(*                                                                         *)
(* A source string is a sequence of one-character strings.  A parser takes *)
(* the source and the number of bytes already consumed (nom_locate's       *)
(* location_offset) and returns a record: [ok |-> TRUE, rest, val] or      *)
(* [ok |-> FALSE, sev, code, at], where sev is nom's Err::Error or         *)
(* Err::Failure, code is nom's ErrorKind and at is the offset of the input *)
(* the error carries.  A Duration is held in whole milliseconds: every     *)
(* atom of the inputs below is a whole number of milliseconds.             *)
(***************************************************************************)
EXTENDS Integers, Sequences, FiniteSets, TLC

VARIABLES
    \* ---- library harness (the lexer's functions called on one source)
    src,        \* the source string handed to the lexer
    lpc,        \* which lexer function ran last
    res,        \* what parse_timestamp2 / parse_item / parse_expr returned
    expr,       \* the Expr that optimize_expr mutates in place
    hist,       \* the Expr after parsing and after each optimize_expr call
    chk,        \* what check_expr returned
    sums,       \* the evaluator's sum before and after optimize_expr
    \* ---- the process (parse(), the evaluators, free_parse)
    pc,         \* the step of parse() or of the host that comes next
    cli,        \* Cli: the --from and --to sources
    from_expr,  \* parse()'s local from_expr (Expr, then CheckedExpr)
    to_expr,    \* parse()'s local to_expr
    exit_code,  \* the code std::process::exit was called with at pc, or -1
    ctx,        \* the ArgParseResultContext behind the handle
    heap,       \* the allocations parse() made that are still live
    stack,      \* call stack of get_from_timestamp / get_to_timestamp
    ret         \* value returned by the outermost evaluator call

lexvars == <<src, lpc, res, expr, hist, chk, sums>>
procvars == <<pc, cli, from_expr, to_expr, exit_code, ctx, heap, stack, ret>>
vars == <<src, lpc, res, expr, hist, chk, sums,
          pc, cli, from_expr, to_expr, exit_code, ctx, heap, stack, ret>>

(***************************************************************************)
(* Bounds.                                                                 *)
(***************************************************************************)
\* atoms per generated source of the library harness
MaxAtoms == 3
\* optimize_expr calls the harness makes on one Expr
MaxOptimize == 2
\* frames the call stack holds before the process dies of stack overflow
MaxStack == 3

Min(a, b) == IF a < b THEN a ELSE b
Abs(x) == IF x < 0 THEN -x ELSE x

RECURSIVE Pow(_, _)
Pow(b, e) == IF e = 0 THEN 1 ELSE b * Pow(b, e - 1)

\* Vec::pop written for Vec::remove(index)
RemoveLast(s, i) == SubSeq(s, 1, Len(s) - 1)

RemoveAt(s, i) == SubSeq(s, 1, i - 1) \o SubSeq(s, i + 1, Len(s))

(***************************************************************************)
(* nom primitives.                                                         *)
(***************************************************************************)
Digits == {"0", "1", "2", "3", "4", "5", "6", "7", "8", "9"}
DigitVal(c) ==
    CASE c = "0" -> 0 [] c = "1" -> 1 [] c = "2" -> 2 [] c = "3" -> 3
      [] c = "4" -> 4 [] c = "5" -> 5 [] c = "6" -> 6 [] c = "7" -> 7
      [] c = "8" -> 8 [] c = "9" -> 9

Ok(rest, val) == [ok |-> TRUE, rest |-> rest, val |-> val]
NomErr(sev, code, at) == [ok |-> FALSE, sev |-> sev, code |-> code, at |-> at]

is_empty(s, pos) == pos = Len(s)

\* the offset after the run of characters of set cs that starts at pos
RECURSIVE RunEnd(_, _, _)
RunEnd(s, pos, cs) ==
    IF pos < Len(s) /\ s[pos + 1] \in cs THEN RunEnd(s, pos + 1, cs) ELSE pos

\* the decimal value of s[from+1 .. to]
RECURSIVE DecValue(_, _, _)
DecValue(s, from, to) ==
    IF to <= from THEN 0 ELSE DecValue(s, from, to - 1) * 10 + DigitVal(s[to])

\* nom::bytes::complete::tag
tag(t, s, pos) ==
    IF pos + Len(t) <= Len(s) /\ SubSeq(s, pos + 1, pos + Len(t)) = t
    THEN Ok(pos + Len(t), t)
    ELSE NomErr("Error", "Tag", pos)

\* nom::character::complete::digit1: the digits are [pos+1 .. rest]
digit1(s, pos) ==
    LET e == RunEnd(s, pos, Digits)
    IN  IF e = pos THEN NomErr("Error", "Digit", pos) ELSE Ok(e, e - pos)

\* nom::character::complete::u64
u64(s, pos) ==
    LET e == RunEnd(s, pos, Digits)
    IN  IF e = pos THEN NomErr("Error", "Digit", pos)
        ELSE Ok(e, DecValue(s, pos, e))

\* many0(space1): space1 takes a whole run of spaces and tabs
skip_spaces(s, pos) == RunEnd(s, pos, {" ", "\t"})

(***************************************************************************)
(* DSLType, DSLOp, DSLItem.                                                *)
(***************************************************************************)
FrameIndex(n) == [type |-> "FrameIndex", v |-> n, k |-> ""]
Timestamp(ms) == [type |-> "Timestamp", v |-> ms, k |-> ""]
Keyword(k) == [type |-> "Keyword", v |-> 0, k |-> k]

DSLKeywords == {"End", "From", "To"}
KeywordToken(k) ==
    CASE k = "End" -> <<"e", "n", "d">>
      [] k = "From" -> <<"f", "r", "o", "m">>
      [] k = "To" -> <<"t", "o">>

reversed(op) == IF op = "Add" THEN "Sub" ELSE "Add"

DSLItem(content, offset, length) ==
    [content |-> content, offset |-> offset, length |-> length]

\* Option::None; Some(x) is x
None == [none |-> TRUE]


(***************************************************************************)
(* Atom parsers (lexer.rs 94-243).                                         *)
(***************************************************************************)
\* alt((_parse(End), _parse(From), _parse(To)))
parse_keyword(s, pos) ==
    LET e == tag(KeywordToken("End"), s, pos)
        f == tag(KeywordToken("From"), s, pos)
        t == tag(KeywordToken("To"), s, pos)
    IN  IF e.ok THEN Ok(e.rest, Keyword("End"))
        ELSE IF f.ok THEN Ok(f.rest, Keyword("From"))
        ELSE IF t.ok THEN Ok(t.rest, Keyword("To"))
        ELSE NomErr("Error", "Tag", pos)

parse_frame_index(s, pos) ==
    LET n == u64(s, pos)
    IN  IF ~n.ok THEN n
        ELSE LET f == tag(<<"f">>, s, n.rest)
             IN  IF ~f.ok THEN f ELSE Ok(f.rest, FrameIndex(n.val))

\* the milliseconds a run of fraction digits s[from+1 .. to] stands for
\* when it is read as the decimals of a number of seconds
FractionMillis(s, from, to) ==
    IF to - from <= 3 THEN DecValue(s, from, to) * Pow(10, 3 - (to - from))
    ELSE DecValue(s, from, from + 3)

\* parse_f64: the f64 number of seconds, held in milliseconds
parse_f64(s, pos) ==
    LET n == u64(s, pos)
    IN  IF ~n.ok THEN n
        ELSE LET dot == tag(<<".">>, s, n.rest)
             IN  IF ~dot.ok THEN Ok(n.rest, n.val * 1000)
                 ELSE LET d == digit1(s, dot.rest)
                      IN  IF ~d.ok THEN d
                          ELSE Ok(d.rest, n.val * 1000
                                          + FractionMillis(s, dot.rest, d.rest))

parse_timestamp1(s, pos) ==
    LET v == parse_f64(s, pos)
    IN  IF ~v.ok THEN v
        ELSE LET t == tag(<<"s">>, s, v.rest)
             IN  IF ~t.ok THEN t ELSE Ok(t.rest, Timestamp(v.val))

\* format!("{}{}", digits, "0".repeat(3usize.saturating_sub(len))).parse::<u64>():
\* the digits right-padded with zeros to three, and never cut
PaddedMillis(s, from, to) ==
    DecValue(s, from, to) * Pow(10, IF to - from < 3 THEN 3 - (to - from) ELSE 0)

\* the fold of lexer.rs 220-222
RECURSIVE FoldSecs(_, _)
FoldSecs(times, index) ==
    IF index > Len(times) THEN 0
    ELSE times[index] * Pow(60, Len(times) - index) + FoldSecs(times, index + 1)

\* the loop of parse_timestamp2 (lexer.rs 174-212): an error, or where it
\* broke out with the fields read and the milliseconds (-1 is None)
RECURSIVE timestamp2_loop(_, _, _, _)
timestamp2_loop(s, input, times, i) ==
    IF i > 2 THEN NomErr("Failure", "Count", input)
    ELSE LET colon == tag(<<":">>, s, input)
         IN  IF colon.ok
             THEN LET n == u64(s, colon.rest)
                  IN  IF ~n.ok THEN n
                      ELSE timestamp2_loop(s, n.rest, Append(times, n.val), i + 1)
             ELSE LET dot == tag(<<".">>, s, input)
                  IN  IF ~dot.ok
                      THEN Ok(input, [times |-> times, ms |-> -1])
                      ELSE LET d == digit1(s, dot.rest)
                           IN  IF ~d.ok THEN d
                               ELSE Ok(d.rest,
                                       [times |-> times,
                                        ms |-> PaddedMillis(s, dot.rest, d.rest)])

\* the fewest fields a colon-timestamp has (lexer.rs 214)
MinFields == 2

\* lexer.rs 213-225: what the loop's outcome l becomes
timestamp2_result(l) ==
    IF ~l.ok THEN l
    ELSE IF Len(l.val.times) < MinFields
    THEN NomErr("Failure", "Fail", l.rest)
    ELSE Ok(l.rest,
            Timestamp(FoldSecs(l.val.times, 1) * 1000
                      + (IF l.val.ms = -1 THEN 0 ELSE l.val.ms)))

\* lexer.rs 170-171: first is what u64 returned on the input
timestamp2_from(s, first) ==
    IF ~first.ok THEN first
    ELSE timestamp2_result(timestamp2_loop(s, first.rest, <<first.val>>, 0))

parse_timestamp2(s, pos) == timestamp2_from(s, u64(s, pos))

parse_timestamp3(s, pos) ==
    LET n == u64(s, pos)
    IN  IF ~n.ok THEN n
        ELSE LET t == tag(<<"m", "s">>, s, n.rest)
             IN  IF ~t.ok THEN t ELSE Ok(t.rest, Timestamp(n.val))

(***************************************************************************)
(* Error mapping (lexer.rs 292-348) and parse_item, parse_op, parse_expr.  *)
(***************************************************************************)
\* map_err: the ParseError built from a nom error
map_err(err, offset, kind) ==
    [ok |-> FALSE, sev |-> err.sev, kind |-> kind, offset |-> offset,
     length |-> err.at - offset, code |-> err.code, at |-> err.at]

\* a keyword attempt mapped with map_err_build instead of map_err_build2
KeywordErrKindNom == "Nom"

\* the kind parse_item gives a failed keyword attempt (lexer.rs 391-394)
KeywordErrKind == "Keywords"

\* alt of three parsers that fail with Err::Error only: the first success,
\* or else the last one's error
alt3(a, b, c) == IF a.ok THEN a ELSE IF b.ok THEN b ELSE c

\* alt((parse_frame_index, parse_timestamp1, parse_timestamp3))
alt_number(s, pos) ==
    alt3(parse_frame_index(s, pos), parse_timestamp1(s, pos),
         parse_timestamp3(s, pos))

\* a span whose length is counted from the start of the source
some_item_from_zero(r, offset) == Ok(r.rest, DSLItem(r.val, offset, r.rest))

\* Some(DSLItem { offset, content, length }) with the rest (lexer.rs 369-376,
\* 399-406)
some_item(r, offset) == Ok(r.rest, DSLItem(r.val, offset, r.rest - offset))

\* a guard that takes every Failure of parse_timestamp2 for final
is_any_failure(e) == e.sev = "Failure"

\* the guard of lexer.rs 379: Failure with the code Count
is_count_failure(e) == e.sev = "Failure" /\ e.code = "Count"

\* lexer.rs 363-406 on the input after the leading spaces: t2, num and kw
\* are what parse_timestamp2, the alt and parse_keyword return on it
item_choice(s, input, t2, num, kw) ==
    IF is_empty(s, input) THEN Ok(input, None)
    ELSE IF t2.ok THEN some_item(t2, input)
    ELSE IF is_count_failure(t2)
    THEN map_err(t2, input, "Nom")
    ELSE IF num.ok THEN some_item(num, input)
    ELSE IF num.sev = "Error" /\ num.code = "Digit"
    THEN IF kw.ok THEN some_item(kw, input)
         ELSE map_err(kw, input, KeywordErrKind)
    ELSE map_err(num, input, "Nom")

item_at(s, input) ==
    item_choice(s, input, parse_timestamp2(s, input), alt_number(s, input),
                parse_keyword(s, input))

parse_item(s, pos) == item_at(s, skip_spaces(s, pos))

\* lexer.rs 461-478 on the input after the leading spaces
op_choice(s, input, add, sub) ==
    IF is_empty(s, input) THEN Ok(input, None)
    ELSE IF add.ok THEN Ok(add.rest, DSLItem("Add", input, add.rest - input))
    ELSE IF sub.ok THEN Ok(sub.rest, DSLItem("Sub", input, sub.rest - input))
    ELSE map_err(sub, input, "Op")

op_at(s, input) ==
    op_choice(s, input, tag(<<"+">>, s, input), tag(<<"-">>, s, input))

parse_op(s, pos) == op_at(s, skip_spaces(s, pos))

Expr(items, ops) == [items |-> items, ops |-> ops]

\* an Escaped error anchored where the input stood after the operator
escaped_at_input(o) ==
    map_err(NomErr("Failure", "Escaped", o.rest), o.rest, "Nom")

\* lexer.rs 516-519: the error for the operator o that nothing follows
escaped(o) ==
    map_err(NomErr("Failure", "Escaped", o.rest), o.val.offset, "Nom")

\* the loop of parse_expr (lexer.rs 507-524): o is what parse_op returned
\* on the input, it what parse_item returned after the operator
RECURSIVE parse_expr_loop(_, _, _, _)
RECURSIVE expr_after_op(_, _, _, _, _)
RECURSIVE expr_after_item(_, _, _, _, _)
parse_expr_loop(s, input, items, ops) ==
    IF is_empty(s, input) THEN Ok(input, Expr(items, ops))
    ELSE expr_after_op(s, input, items, ops, parse_op(s, input))

expr_after_op(s, input, items, ops, o) ==
    IF ~o.ok THEN o
    ELSE IF o.val = None THEN Ok(input, Expr(items, ops))
    ELSE expr_after_item(s, items, ops, o, parse_item(s, o.rest))

\* a loop that ends on an operator with nothing after it instead of failing
expr_after_item_lenient(s, items, ops, o, it) ==
    IF ~it.ok THEN it
    ELSE IF it.val = None THEN Ok(o.rest, Expr(items, Append(ops, o.val)))
    ELSE parse_expr_loop(s, it.rest, Append(items, it.val), Append(ops, o.val))

expr_after_item(s, items, ops, o, it) ==
    IF ~it.ok THEN it
    ELSE IF it.val = None THEN escaped(o)
    ELSE parse_expr_loop(s, it.rest, Append(items, it.val), Append(ops, o.val))

\* lexer.rs 502-505: first is what parse_item returned on the source
expr_from(s, first) ==
    IF ~first.ok THEN first
    ELSE IF first.val = None THEN Ok(0, Expr(<<>>, <<>>))
    ELSE parse_expr_loop(s, first.rest, <<first.val>>, <<>>)

parse_expr(s) == expr_from(s, parse_item(s, 0))

(***************************************************************************)
(* optimize_expr (lexer.rs 550-609).  Indexes are 1-based here; the        *)
(* Option<usize> cursors frame_index and time_index hold 0 for None.       *)
(***************************************************************************)
\* DSLItem::set
set(item, content) == [item EXCEPT !.content = content]

\* the comparison written the wrong way round
keeps_sign_smaller(first, this) == first < this

\* the test that decides whether a fold keeps the sign of the first atom
\* (lexer.rs 573 and 592: `first > this`)
keeps_sign(first, this) == first > this

\* the variant of content (FrameIndex or Timestamp) built on the value v
same_variant(content, v) == [content EXCEPT !.v = v]

\* one fold of the atom at index into the atom of its kind at first_index
\* (lexer.rs 569-581 for FrameIndex, 588-600 for Timestamp)
fold(items, ops, first_index, index) ==
    LET first == items[first_index].content.v
        this == items[index].content.v
        same == ops[first_index].content = ops[index].content
        folded ==
            IF same THEN first + this
            ELSE IF keeps_sign(first, this) THEN first - this
            ELSE this - first
        items1 ==
            [items EXCEPT ![first_index] =
                 set(@, same_variant(items[index].content, folded))]
        ops1 ==
            IF ~same /\ ~keeps_sign(first, this)
            THEN [ops EXCEPT ![first_index].content = reversed(@)]
            ELSE ops
    IN  Expr(RemoveAt(items1, index), RemoveAt(ops1, index))

RECURSIVE optimize_loop(_, _, _, _, _)
\* `continue` after a fold left the Expr f
optimize_continue(f, frame_index, time_index, index) ==
    optimize_loop(f.items, f.ops, frame_index, time_index, index)

optimize_loop(items, ops, frame_index, time_index, index) ==
    IF ~(index <= Len(items)) THEN Expr(items, ops)
    ELSE CASE items[index].content.type = "FrameIndex" ->
                IF frame_index # 0
                THEN optimize_continue(
                         fold(items, ops, frame_index, index),
                         frame_index, time_index, index)
                ELSE optimize_loop(items, ops, index, time_index, index + 1)
           [] items[index].content.type = "Timestamp" ->
                IF time_index # 0
                THEN optimize_continue(
                         fold(items, ops, time_index, index),
                         frame_index, time_index, index)
                ELSE optimize_loop(items, ops, frame_index, index, index + 1)
           [] items[index].content.type = "Keyword" ->
                optimize_loop(items, ops, frame_index, time_index, index + 1)

optimize_expr(e) ==
    LET ops == <<DSLItem("Add", 0, 0)>> \o e.ops
    IN  IF Len(e.items) < 2 THEN Expr(e.items, ops)
        ELSE optimize_loop(e.items, ops, 0, 0, 1)

(***************************************************************************)
(* check_expr (lexer.rs 631-666).                                          *)
(***************************************************************************)
CheckedExpr(items, ops) == [items |-> items, ops |-> ops]

\* the pairs items.iter().zip(ops.iter()) visits
Zipped(e) == 1 .. Min(Len(e.items), Len(e.ops))

Occurrences(e, word, op) ==
    {i \in Zipped(e) : /\ e.items[i].content.type = "Keyword"
                       /\ e.items[i].content.k = word
                       /\ e.ops[i].content = op}

\* counter[word] after the loop, for a word the loop met
counter(e, word) ==
    Cardinality(Occurrences(e, word, "Add"))
  - Cardinality(Occurrences(e, word, "Sub"))

\* a contains_key that takes a word whose count came back to 0 for absent
contains_key_nonzero(e, word) == counter(e, word) # 0

\* counter.contains_key(word): the loop made an entry for word
contains_key(e, word) ==
    \E i \in Zipped(e) : /\ e.items[i].content.type = "Keyword"
                         /\ e.items[i].content.k = word

has_add(e) == \E i \in Zipped(e) : e.ops[i].content = "Add"

Strip(s) == [i \in 1 .. Len(s) |-> s[i].content]

check_expr(e) ==
    IF ~has_add(e) /\ Len(e.ops) # 0
    THEN [ok |-> FALSE, msg |-> "Overflow: all is sub"]
    ELSE IF \E w \in DSLKeywords : contains_key(e, w) /\ Abs(counter(e, w)) > 1
    THEN [ok |-> FALSE, msg |-> "Too many keywords"]
    ELSE IF contains_key(e, "From") /\ contains_key(e, "To")
    THEN [ok |-> FALSE, msg |-> "circular references"]
    ELSE [ok |-> TRUE, val |-> CheckedExpr(Strip(e.items), Strip(e.ops))]

(***************************************************************************)
(* VideoInfo (lib.rs 38-71).  fps is held as an integer; the f64 division  *)
(* followed by `as i64` is the exact quotient cut toward zero, which is    *)
(* what the f64 arithmetic gives for every VideoInfo and atom used below   *)
(* (for others the f64 quotient may land just under a whole number: 1400   *)
(* ms at a time base of 1/1000 gives 1399).  Every VideoInfo below has a   *)
(* positive fps and a positive time base.                                  *)
(***************************************************************************)
\* i64::MIN, scaled to the integers TLC has
AV_NOPTS_VALUE == -(2 ^ 30)

VideoInfo(fps, time_base_den, time_base_num, start_time, duration) ==
    [fps |-> fps, time_base_den |-> time_base_den,
     time_base_num |-> time_base_num, start_time |-> start_time,
     duration |-> duration]

\* ((a / b) / (n / d)) as i64, the quotient a * d / (b * n) cut toward zero,
\* for a >= 0 and b, n, d > 0; it is computed without the product a * d,
\* which the integers TLC has may not hold
TruncDiv(a, b, n, d) ==
    LET q == b * n
    IN  (a \div q) * d + ((a % q) * d) \div q

start_offset(info) ==
    IF info.start_time # AV_NOPTS_VALUE THEN info.start_time ELSE 0

frame_to_timestamp(info, frame_index) ==
    TruncDiv(frame_index, info.fps, info.time_base_num, info.time_base_den)
    + start_offset(info)

milliseconds_to_timestamp(info, ms) ==
    TruncDiv(ms, 1000, info.time_base_num, info.time_base_den)
    + start_offset(info)

\* an end that is shifted by the start offset like the other conversions
end_with_offset(info) == info.duration + start_offset(info)

end_to_timestamp(info) == info.duration

(***************************************************************************)
(* The evaluator's loop (lib.rs 382-404, 419-441) as a function of the     *)
(* value the call on the peer returns.                                     *)
(***************************************************************************)
\* what an atom that is not a reference to the peer contributes
contribution(item, info) ==
    CASE item.type = "FrameIndex" -> frame_to_timestamp(info, item.v)
      [] item.type = "Timestamp" -> milliseconds_to_timestamp(info, item.v)
      [] item.type = "Keyword" -> end_to_timestamp(info)

\* pts after `pts += item` or `pts -= item`
accumulate(pts, op, item) == IF op = "Add" THEN pts + item ELSE pts - item

RECURSIVE eval_loop(_, _, _, _, _, _)
eval_loop(ops, items, info, peer, i, pts) ==
    IF i > Min(Len(ops), Len(items)) THEN pts
    ELSE LET item == IF items[i].type = "Keyword" /\ items[i].k # "End"
                     THEN peer ELSE contribution(items[i], info)
         IN  eval_loop(ops, items, info, peer, i + 1,
                       accumulate(pts, ops[i], item))

(***************************************************************************)
(* Inputs.                                                                 *)
(***************************************************************************)
AtomTexts ==
    { <<"1", "f">>, <<"2", "f">>, <<"1", "s">>, <<"2", "s">>, <<"3", "s">>,
      <<"e", "n", "d">>, <<"f", "r", "o", "m">>, <<"t", "o">> }

OpTexts == { <<" ", "+", " ">>, <<" ", "-", " ">> }

\* the sources made of exactly n atoms joined by operators
RECURSIVE Chains(_)
Chains(n) ==
    IF n = 1 THEN AtomTexts
    ELSE {c \o o \o a : c \in Chains(n - 1), o \in OpTexts, a \in AtomTexts}

GeneratedSources == UNION {Chains(n) : n \in 1 .. MaxAtoms}

\* sources of the tests and of the error paths
ExtraSources ==
    {
      \* ``
      <<>>,
      \* ` `
      <<" ">>,
      \* `++`
      <<"+", "+">>,
      \* `1.4`
      <<"1", ".", "4">>,
      \* `0`
      <<"0">>,
      \* `100`
      <<"1", "0", "0">>,
      \* `1:2:3:4`
      <<"1", ":", "2", ":", "3", ":", "4">>,
      \* `hello`
      <<"h", "e", "l", "l", "o">>,
      \* `1f+`
      <<"1", "f", "+">>,
      \* `1f +  `
      <<"1", "f", " ", "+", " ", " ">>,
      \* `1f++2f`
      <<"1", "f", "+", "+", "2", "f">>,
      \* `1:2.1234`
      <<"1", ":", "2", ".", "1", "2", "3", "4">>,
      \* `0:1`
      <<"0", ":", "1">>,
      \* `1:2`
      <<"1", ":", "2">>,
      \* `1:2:3.4`
      <<"1", ":", "2", ":", "3", ".", "4">>,
      \* `3ms`
      <<"3", "m", "s">>,
      \* `1.5s`
      <<"1", ".", "5", "s">>,
      \* `100.11s`
      <<"1", "0", "0", ".", "1", "1", "s">>,
      \* ` 1f+2f `
      <<" ", "1", "f", "+", "2", "f", " ">>,
      \* `1f 2f`
      <<"1", "f", " ", "2", "f">>,
      \* `1d`
      <<"1", "d">>,
      \* `-1s`
      <<"-", "1", "s">>,
      \* `end + from - to + 1f - 2s + 3ms - 4:5`
      <<"e", "n", "d", " ", "+", " ", "f", "r", "o", "m", " ", "-", " ", "t", "o", " ", "+", " ", "1", "f", " ", "-", " ", "2", "s", " ", "+", " ", "3", "m", "s", " ", "-", " ", "4", ":", "5">>,
      \* `1s - 2s - from - from`
      <<"1", "s", " ", "-", " ", "2", "s", " ", "-", " ", "f", "r", "o", "m", " ", "-", " ", "f", "r", "o", "m">>,
      \* `1f - 2f - from - to`
      <<"1", "f", " ", "-", " ", "2", "f", " ", "-", " ", "f", "r", "o", "m", " ", "-", " ", "t", "o">>,
      \* ` 1:2:3:4:5`
      <<" ", "1", ":", "2", ":", "3", ":", "4", ":", "5">>,
      \* `1:2:3:`
      <<"1", ":", "2", ":", "3", ":">>,
      \* `  2:3.45 + 1f`
      <<" ", " ", "2", ":", "3", ".", "4", "5", " ", "+", " ", "1", "f">>,
      \* `1:1:1`
      <<"1", ":", "1", ":", "1">>,
      \* ` end+1f`
      <<" ", "e", "n", "d", "+", "1", "f">>,
      \* `\t12ms - 1f`
      <<"\t", "1", "2", "m", "s", " ", "-", " ", "1", "f">>,
      \* `1f - `
      <<"1", "f", " ", "-", " ">>,
      \* `1f + 2f - x`
      <<"1", "f", " ", "+", " ", "2", "f", " ", "-", " ", "x">>,
      \* `2f - 1s - 3f - 2s`
      <<"2", "f", " ", "-", " ", "1", "s", " ", "-", " ", "3", "f", " ", "-", " ", "2", "s">>
    }

Sources == GeneratedSources \cup ExtraSources

Infos ==
    { VideoInfo(25, 1000, 1, AV_NOPTS_VALUE, 10000),
      VideoInfo(3, 1000, 1, AV_NOPTS_VALUE, 10000),
      VideoInfo(25, 1000, 1, 500, 10000),
      VideoInfo(10, 100, 1, 0, 1000) }

\* what the evaluation of the peer bound may return
PeerValues == {250}

(***************************************************************************)
(* The library: the lexer's functions called on one source, as the tests   *)
(* of lexer.rs call them.                                                  *)
(***************************************************************************)
Idle == [none |-> TRUE]
NoExpr == Expr(<<>>, <<>>)

ProcOff ==
    /\ pc = "off"
    /\ cli = Idle
    /\ from_expr = Idle
    /\ to_expr = Idle
    /\ exit_code = -1
    /\ ctx = Idle
    /\ heap = {}
    /\ stack = <<>>
    /\ ret = Idle

LexInit ==
    /\ src \in Sources
    /\ lpc = "src"
    /\ res = Idle
    /\ expr = NoExpr
    /\ hist = <<>>
    /\ chk = Idle
    /\ sums = Idle
    /\ ProcOff

CallParseTimestamp2 ==
    /\ lpc = "src"
    /\ res' = parse_timestamp2(src, 0)
    /\ lpc' = "timestamp2"
    /\ UNCHANGED <<src, expr, hist, chk, sums>>
    /\ UNCHANGED procvars

CallParseItem ==
    /\ lpc = "src"
    /\ res' = parse_item(src, 0)
    /\ lpc' = "item"
    /\ UNCHANGED <<src, expr, hist, chk, sums>>
    /\ UNCHANGED procvars

CallParseExpr ==
    /\ lpc = "src"
    /\ res' = parse_expr(src)
    /\ lpc' = "parsed"
    /\ expr' = IF res'.ok THEN res'.val ELSE expr
    /\ hist' = IF res'.ok THEN <<res'.val>> ELSE hist
    /\ UNCHANGED <<src, chk, sums>>
    /\ UNCHANGED procvars

CallOptimize ==
    /\ lpc \in {"parsed", "optimized"}
    /\ res.ok
    /\ Len(hist) <= MaxOptimize
    /\ expr' = optimize_expr(expr)
    /\ hist' = Append(hist, expr')
    /\ lpc' = "optimized"
    /\ UNCHANGED <<src, res, chk, sums>>
    /\ UNCHANGED procvars

CallCheck ==
    /\ lpc = "optimized"
    /\ Len(hist) = 2
    /\ chk' = check_expr(expr)
    /\ lpc' = "checked"
    /\ UNCHANGED <<src, res, expr, hist, sums>>
    /\ UNCHANGED procvars

\* the evaluator's loop on the Expr as parsed, its first atom signed Add,
\* and on the Expr as optimize_expr left it
Evaluate ==
    /\ lpc = "optimized"
    /\ Len(hist) = 2
    /\ \E info \in Infos, peer \in PeerValues :
          sums' = [info |-> info, peer |-> peer,
                   before |-> eval_loop(<<"Add">> \o Strip(hist[1].ops),
                                        Strip(hist[1].items), info, peer, 1, 0),
                   after |-> eval_loop(Strip(expr.ops), Strip(expr.items),
                                       info, peer, 1, 0)]
    /\ lpc' = "evaluated"
    /\ UNCHANGED <<src, res, expr, hist, chk>>
    /\ UNCHANGED procvars

LexNext ==
    \/ CallParseTimestamp2
    \/ CallParseItem
    \/ CallParseExpr
    \/ CallOptimize
    \/ CallCheck
    \/ Evaluate

LexSpec == LexInit /\ [][LexNext]_vars

(***************************************************************************)
(* The process: parse() (lib.rs 296-340), the evaluators the host calls on *)
(* the handle (lib.rs 373-444) and free_parse (lib.rs 447-454).            *)
(***************************************************************************)
\* Cli's default_value of --from and of --to (lib.rs 241, 258)
DefaultFrom == <<"0">>
DefaultTo == <<"e", "n", "d">>

CliAtoms ==
    { <<"1", "s">>, <<"2", "f">>, <<"e", "n", "d">>, <<"f", "r", "o", "m">>,
      <<"t", "o">> }

CliSources ==
    CliAtoms
    \cup {a \o o \o b : a \in CliAtoms, o \in OpTexts, b \in CliAtoms}
    \cup {DefaultFrom, DefaultTo}
    \cup {
      \* ``
      <<>>,
      \* `++`
      <<"+", "+">>,
      \* `100f`
      <<"1", "0", "0", "f">>,
      \* `to - to + 1s`
      <<"t", "o", " ", "-", " ", "t", "o", " ", "+", " ", "1", "s">>,
      \* `1s + from - from`
      <<"1", "s", " ", "+", " ", "f", "r", "o", "m", " ", "-", " ", "f", "r", "o", "m">>
    }

\* the code handle_error ends the process with (tui.rs 164)
ParseExitCode == 1

\* a check failure reported with the code of a parse failure
CheckExitCodeAsParse == ParseExitCode

\* the code of err!(err, 2) (lib.rs 307, 314, 328)
CheckExitCode == 2

LexOff ==
    /\ src = <<>>
    /\ lpc = "off"
    /\ res = Idle
    /\ expr = NoExpr
    /\ hist = <<>>
    /\ chk = Idle
    /\ sums = Idle

Init ==
    /\ LexOff
    /\ pc = "parse_from"
    /\ cli \in [from : CliSources, to : CliSources]
    /\ from_expr = Idle
    /\ to_expr = Idle
    /\ exit_code = -1
    /\ ctx = Idle
    /\ heap = {}
    /\ stack = <<>>
    /\ ret = Idle

Running == exit_code = -1

\* lib.rs 300-304: parse_expr on cli.from, through tui::handle_error
ParseFrom ==
    /\ Running /\ pc = "parse_from"
    /\ \E r \in {parse_expr(cli.from)} :
          IF r.ok
          THEN /\ from_expr' = r.val
               /\ pc' = "optimize_from"
               /\ UNCHANGED exit_code
          ELSE /\ exit_code' = ParseExitCode
               /\ UNCHANGED <<from_expr, pc>>
    /\ UNCHANGED <<cli, to_expr, ctx, heap, stack, ret>>
    /\ UNCHANGED lexvars

\* lib.rs 305
OptimizeFrom ==
    /\ Running /\ pc = "optimize_from"
    /\ from_expr' = optimize_expr(from_expr)
    /\ pc' = "check_from"
    /\ UNCHANGED <<cli, to_expr, exit_code, ctx, heap, stack, ret>>
    /\ UNCHANGED lexvars

\* a check of the from-bound whose failure is not acted on before the
\* to-bound is read
CheckFromDeferred ==
    /\ Running /\ pc = "check_from"
    /\ from_expr' = CheckedExpr(Strip(from_expr.items), Strip(from_expr.ops))
    /\ pc' = "parse_to"
    /\ UNCHANGED <<cli, to_expr, exit_code, ctx, heap, stack, ret>>
    /\ UNCHANGED lexvars

\* lib.rs 306-308
CheckFrom ==
    /\ Running /\ pc = "check_from"
    /\ \E c \in {check_expr(from_expr)} :
          IF c.ok
          THEN /\ from_expr' = c.val
               /\ pc' = "parse_to"
               /\ UNCHANGED exit_code
          ELSE /\ exit_code' = CheckExitCode
               /\ UNCHANGED <<from_expr, pc>>
    /\ UNCHANGED <<cli, to_expr, ctx, heap, stack, ret>>
    /\ UNCHANGED lexvars

\* lib.rs 310-311
ParseTo ==
    /\ Running /\ pc = "parse_to"
    /\ \E r \in {parse_expr(cli.to)} :
          IF r.ok
          THEN /\ to_expr' = r.val
               /\ pc' = "optimize_to"
               /\ UNCHANGED exit_code
          ELSE /\ exit_code' = ParseExitCode
               /\ UNCHANGED <<to_expr, pc>>
    /\ UNCHANGED <<cli, from_expr, ctx, heap, stack, ret>>
    /\ UNCHANGED lexvars

\* lib.rs 312
OptimizeTo ==
    /\ Running /\ pc = "optimize_to"
    /\ to_expr' = optimize_expr(to_expr)
    /\ pc' = "check_to"
    /\ UNCHANGED <<cli, from_expr, exit_code, ctx, heap, stack, ret>>
    /\ UNCHANGED lexvars

\* lib.rs 313-315
CheckTo ==
    /\ Running /\ pc = "check_to"
    /\ \E c \in {check_expr(to_expr)} :
          IF c.ok
          THEN /\ to_expr' = c.val
               /\ pc' = "cross_reference"
               /\ UNCHANGED exit_code
          ELSE /\ exit_code' = CheckExitCode
               /\ UNCHANGED <<to_expr, pc>>
    /\ UNCHANGED <<cli, from_expr, ctx, heap, stack, ret>>
    /\ UNCHANGED lexvars

\* `all` written for `any`
refers_all(checked, word) ==
    \A i \in 1 .. Len(checked.items) :
        checked.items[i].type = "Keyword" /\ checked.items[i].k = word

\* checked.items.iter().any(|item| item is Keyword(word)) (lib.rs 317-324)
refers(checked, word) ==
    \E i \in 1 .. Len(checked.items) :
        checked.items[i].type = "Keyword" /\ checked.items[i].k = word

\* a guard that never fires
circular_never(ref_from, ref_to) == FALSE

\* the guard of lib.rs 325
circular(ref_from, ref_to) == ref_from /\ ref_to

\* lib.rs 317-330
CrossReference ==
    /\ Running /\ pc = "cross_reference"
    /\ IF circular(refers(to_expr, "From"), refers(from_expr, "To"))
       THEN /\ exit_code' = CheckExitCode
            /\ UNCHANGED pc
       ELSE /\ pc' = "build"
            /\ UNCHANGED exit_code
    /\ UNCHANGED <<cli, from_expr, to_expr, ctx, heap, stack, ret>>
    /\ UNCHANGED lexvars

\* lib.rs 332-339: the handle, its two CheckedExprs and the three CStrings
\* handed out with into_raw
BuildResult ==
    /\ Running /\ pc = "build"
    /\ ctx' = [start |-> from_expr, end |-> to_expr]
    /\ heap' = {"ctx", "start", "end", "input", "output", "format"}
    /\ pc' = "handle"
    /\ UNCHANGED <<cli, from_expr, to_expr, exit_code, stack, ret>>
    /\ UNCHANGED lexvars

Frame(fn, info) == [fn |-> fn, info |-> info, index |-> 1, pts |-> 0]

\* the host calls get_from_timestamp(res_ctx, info)
CallGetFromTimestamp ==
    /\ Running /\ pc = "handle"
    /\ \E info \in Infos : stack' = <<Frame("from", info)>>
    /\ ret' = Idle
    /\ pc' = "eval"
    /\ UNCHANGED <<cli, from_expr, to_expr, exit_code, ctx, heap>>
    /\ UNCHANGED lexvars

\* the host calls get_to_timestamp(res_ctx, info)
CallGetToTimestamp ==
    /\ Running /\ pc = "handle"
    /\ \E info \in Infos : stack' = <<Frame("to", info)>>
    /\ ret' = Idle
    /\ pc' = "eval"
    /\ UNCHANGED <<cli, from_expr, to_expr, exit_code, ctx, heap>>
    /\ UNCHANGED lexvars

\* the expression a running evaluator walks
bound(fn) == IF fn = "from" THEN ctx.start ELSE ctx.end

\* the code a panic that leaves an extern "C" function ends the process with
AbortCode == 134

\* the caller's frame once the call it made has returned value
resume(caller, value) ==
    [caller EXCEPT !.pts = accumulate(@, bound(caller.fn).ops[caller.index],
                                      value),
                   !.index = @ + 1]

\* One step of the evaluator on top of the stack, which runs function fn
\* (lib.rs 381-405 for "from", 418-442 for "to"): peer_word is the keyword
\* it resolves by calling the function peer_fn.
EvalStep(fn, peer_word, peer_fn) ==
    /\ Running /\ pc = "eval"
    /\ stack # <<>>
    /\ stack[Len(stack)].fn = fn
    /\ \E top \in {stack[Len(stack)]}, e \in {bound(fn)} :
          IF top.index > Min(Len(e.ops), Len(e.items))
          THEN \* the loop is over: return pts
               IF Len(stack) = 1
               THEN /\ ret' = [pts |-> top.pts]
                    /\ stack' = <<>>
                    /\ pc' = "handle"
                    /\ UNCHANGED exit_code
               ELSE /\ stack' = [SubSeq(stack, 1, Len(stack) - 1)
                                    EXCEPT ![Len(stack) - 1] =
                                        resume(@, top.pts)]
                    /\ UNCHANGED <<ret, pc, exit_code>>
          ELSE \E item \in {e.items[top.index]} :
               IF item.type = "Keyword" /\ item.k = peer_word
               THEN IF Len(stack) < MaxStack
                    THEN /\ stack' = Append(stack, Frame(peer_fn, top.info))
                         /\ UNCHANGED <<ret, pc, exit_code>>
                    ELSE \* the stack overflows
                         /\ exit_code' = AbortCode
                         /\ UNCHANGED <<stack, ret, pc>>
               ELSE IF item.type = "Keyword" /\ item.k # "End"
               THEN \* unreachable!()
                    /\ exit_code' = AbortCode
                    /\ UNCHANGED <<stack, ret, pc>>
               ELSE /\ stack' = [stack EXCEPT ![Len(stack)] =
                                    [@ EXCEPT !.pts = accumulate(
                                                  @, e.ops[top.index],
                                                  contribution(item, top.info)),
                                              !.index = @ + 1]]
                    /\ UNCHANGED <<ret, pc, exit_code>>
    /\ UNCHANGED <<cli, from_expr, to_expr, ctx, heap>>
    /\ UNCHANGED lexvars

GetFromTimestampStep == EvalStep("from", "To", "to")
GetToTimestampStep == EvalStep("to", "From", "from")

\* free_parse on the handle: Box::from_raw drops the context and the two
\* CheckedExprs it owns; its three *const c_char fields have no destructor
FreeParse ==
    /\ Running /\ pc = "handle"
    /\ heap' = heap \ {"ctx", "start", "end"}
    /\ pc' = "freed"
    /\ UNCHANGED <<cli, from_expr, to_expr, exit_code, ctx, stack, ret>>
    /\ UNCHANGED lexvars

Next ==
    \/ ParseFrom
    \/ OptimizeFrom
    \/ CheckFrom
    \/ ParseTo
    \/ OptimizeTo
    \/ CheckTo
    \/ CrossReference
    \/ BuildResult
    \/ CallGetFromTimestamp
    \/ CallGetToTimestamp
    \/ GetFromTimestampStep
    \/ GetToTimestampStep
    \/ FreeParse

Spec == Init /\ [][Next]_vars

\* a function that was called runs on until it returns or the process dies
FairSpec ==
    Spec /\ WF_vars(GetFromTimestampStep) /\ WF_vars(GetToTimestampStep)

(***************************************************************************)
(* Properties.  The predicates below read the expressions in the state and *)
(* use none of the operators that model check_expr or the guard.           *)
(***************************************************************************)
\* the atoms of kind type among items (Expr items, which carry spans)
OfType(items, type) == {i \in 1 .. Len(items) : items[i].content.type = type}

\* the positions of keyword word among the items of a CheckedExpr
KeywordAt(items, word) ==
    {i \in 1 .. Len(items) : items[i].type = "Keyword" /\ items[i].k = word}

\* the state after exactly one optimize_expr on a parsed Expr
OptimizedOnce == lpc = "optimized" /\ Len(hist) = 2

\* C1: after one optimize_expr on any Expr parse_expr produced (the empty
\* one included) there are as many operators as atoms, at most one
\* FrameIndex and at most one Timestamp.
C1_CanonicalForm ==
    OptimizedOnce =>
        /\ Len(expr.ops) = Len(expr.items)
        /\ Cardinality(OfType(expr.items, "FrameIndex")) <= 1
        /\ Cardinality(OfType(expr.items, "Timestamp")) <= 1

\* C2: optimize_expr is idempotent: a second call leaves the items and the
\* ops that the first call produced.
C2_Idempotent ==
    Len(hist) = 3 =>
        /\ Strip(hist[3].items) = Strip(hist[2].items)
        /\ Strip(hist[3].ops) = Strip(hist[2].ops)

\* C3: for every parsed Expr and every VideoInfo, the signed sum of the atom
\* contributions is the same before and after optimize_expr, up to the
\* rounding of the per-atom division (less than one unit per atom).
C3_SemanticsPreserved ==
    lpc = "evaluated" =>
        Abs(sums.before - sums.after) <= Len(hist[1].items) + Len(hist[2].items)

Src_1s_plus_2s_minus_3s ==
    <<"1", "s", " ", "+", " ", "2", "s", " ", "-", " ", "3", "s">>

\* C4: the source `1s + 2s - 3s` passes parse_expr, optimize_expr and
\* check_expr: check_expr returns Ok.
C4_ZeroNetAccepted ==
    (src = Src_1s_plus_2s_minus_3s /\ lpc = "checked") => chk.ok

\* C5: with the default sources `0` and `end`, parse() gets through
\* parse_expr, optimize_expr and check_expr for both bounds and never ends
\* the process.
C5_DefaultsAccepted ==
    (cli.from = DefaultFrom /\ cli.to = DefaultTo) => exit_code = -1

\* V1 is violated: no atom is signed Add
V1Violated(e) ==
    ~ \E i \in 1 .. Len(e.items) : i <= Len(e.ops) /\ e.ops[i].content = "Add"

RECURSIVE SignedCount(_, _, _)
SignedCount(e, word, i) ==
    IF i > Len(e.items) THEN 0
    ELSE SignedCount(e, word, i + 1)
         + (IF e.items[i].content = Keyword(word)
            THEN (IF e.ops[i].content = "Add" THEN 1 ELSE -1)
            ELSE 0)

\* V2 is violated: some keyword has a signed count beyond 1 or -1
V2Violated(e) ==
    \E w \in DSLKeywords : SignedCount(e, w, 1) > 1 \/ SignedCount(e, w, 1) < -1

Occurs(e, word) == \E i \in 1 .. Len(e.items) : e.items[i].content = Keyword(word)

\* V3 is violated: From and To both occur
V3Violated(e) == Occurs(e, "From") /\ Occurs(e, "To")

\* C6: check_expr rejects every canonicalized expression that violates V1,
\* V2 or V3 and never returns a CheckedExpr for it; the message is the one
\* of the first rule violated, in the order V1 ("Overflow: all is sub"),
\* V2 ("Too many keywords"), V3 ("circular references").
C6_CheckRejects ==
    lpc = "checked" =>
        /\ (V1Violated(expr) \/ V2Violated(expr) \/ V3Violated(expr)) => ~chk.ok
        /\ V1Violated(expr) => (~chk.ok /\ chk.msg = "Overflow: all is sub")
        /\ (~V1Violated(expr) /\ V2Violated(expr)) =>
               (~chk.ok /\ chk.msg = "Too many keywords")
        /\ (~V1Violated(expr) /\ ~V2Violated(expr) /\ V3Violated(expr)) =>
               (~chk.ok /\ chk.msg = "circular references")

\* check_expr has rejected, for V3 alone, an expression in which From occurs
\* with a signed count of 0
C6_Witness ==
    /\ lpc = "checked"
    /\ V3Violated(expr) /\ ~V1Violated(expr) /\ ~V2Violated(expr)
    /\ SignedCount(expr, "From", 1) = 0
    /\ ~chk.ok /\ chk.msg = "circular references"

\* both bounds passed check_expr
BothChecked == pc \in {"cross_reference", "build", "handle", "eval", "freed"}

\* C7: when the validated from-expression contains To and the validated
\* to-expression contains From, whatever the number and the signs of the
\* occurrences, parse() ends the process with code 2 in the cross-reference
\* guard and no handle is ever built.
C7_CrossReference ==
    (/\ BothChecked
     /\ KeywordAt(from_expr.items, "To") # {}
     /\ KeywordAt(to_expr.items, "From") # {}) =>
        /\ pc = "cross_reference"
        /\ ctx = Idle
        /\ exit_code \in {-1, CheckExitCode}

\* the guard has ended the process on a from-expression in which To occurs
\* twice, once signed Sub
C7_Witness ==
    /\ pc = "cross_reference" /\ exit_code = CheckExitCode
    /\ Cardinality(KeywordAt(from_expr.items, "To")) = 2
    /\ \E i \in KeywordAt(from_expr.items, "To") : from_expr.ops[i] = "Sub"
    /\ KeywordAt(to_expr.items, "From") # {}

\* C8: for every pair of expressions parse() accepts, an evaluator call
\* ends (it returns, or the process dies), evaluator calls nest at most one
\* deep, and the nested call runs the other function.
C8_EvalTerminates ==
    /\ [](Len(stack) <= 2
          /\ (Len(stack) = 2 => stack[1].fn # stack[2].fn))
    /\ ((pc = "eval" /\ exit_code = -1) ~> (pc = "handle" \/ exit_code # -1))

\* a nested call on the peer has run its loop to the end and is to return
C8_Witness ==
    /\ Len(stack) = 2
    /\ stack[1].fn = "from" /\ stack[2].fn = "to"
    /\ stack[2].index > Len(ctx.end.items)
    /\ Len(ctx.end.items) > 0

\* C9 as stated: parse_expr on `++` fails with the underlying kind Escaped
\* at offset 1.
C9_PlusPlusEscaped ==
    (src = <<"+", "+">> /\ lpc = "parsed") =>
        (~res.ok /\ res.code = "Escaped" /\ res.offset = 1)

\* C9: parse_expr on `++` fails in its first parse_item: the error has the
\* kind Keywords, the underlying kind Tag and the offset 0.
C9_PlusPlusKeywords ==
    (src = <<"+", "+">> /\ lpc = "parsed") =>
        (~res.ok /\ res.kind = "Keywords" /\ res.code = "Tag" /\ res.offset = 0)

\* parse_expr has run on `++`
C9_Witness == src = <<"+", "+">> /\ lpc = "parsed" /\ ~res.ok /\ hist = <<>>

\* C10: `1.4` is accepted by parse_timestamp2 and by parse_item as
\* Timestamp(1 s + 400 ms).
C10_FractionAccepted ==
    src = <<"1", ".", "4">> =>
        /\ lpc = "timestamp2" => (res.ok /\ res.val = Timestamp(1400))
        /\ lpc = "item" => (res.ok /\ res.val.content = Timestamp(1400))

Src_long_fraction == <<"1", ":", "2", ".", "1", "2", "3", "4">>

\* C11: a colon-timestamp with more than three fraction digits (`1:2.1234`)
\* is rejected with an error by parse_timestamp2 and by parse_item.
C11_LongFractionRejected ==
    (src = Src_long_fraction /\ lpc \in {"timestamp2", "item"}) => ~res.ok

\* the number of digit runs joined by colons that start at offset p
RECURSIVE NumericFields(_, _)
NumericFields(s, p) ==
    IF ~(p < Len(s) /\ s[p + 1] \in Digits) THEN 0
    ELSE IF p + 1 < Len(s) /\ s[p + 2] \in Digits THEN NumericFields(s, p + 1)
    ELSE IF p + 1 < Len(s) /\ s[p + 2] = ":" THEN 1 + NumericFields(s, p + 2)
    ELSE 1

\* the offset of the first byte that is neither a space nor a tab
RECURSIVE FirstNonSpace(_, _)
FirstNonSpace(s, p) ==
    IF p < Len(s) /\ s[p + 1] \in {" ", "\t"} THEN FirstNonSpace(s, p + 1) ELSE p

\* C12: on a token of more than three colon-separated numeric fields
\* parse_item fails at once with a Failure of underlying kind Count whose
\* offset is the start of the token; any other failure of parse_timestamp2
\* leaves the outcome to the number forms and the keywords.
C12_FourFieldsFail ==
    lpc = "item" =>
        \E start \in {FirstNonSpace(src, 0)} :
            /\ NumericFields(src, start) > 3 =>
                   (/\ ~res.ok
                    /\ res.sev = "Failure" /\ res.code = "Count"
                    /\ res.offset = start)
            /\ (/\ start < Len(src)
                /\ NumericFields(src, start) <= 3
                /\ ~parse_timestamp2(src, start).ok) =>
                   (res.ok <=> (alt_number(src, start).ok
                                \/ parse_keyword(src, start).ok))

\* parse_item has failed on the five fields of ` 1:2:3:4:5`
C12_Witness ==
    /\ lpc = "item"
    /\ src = <<" ", "1", ":", "2", ":", "3", ":", "4", ":", "5">>
    /\ ~res.ok /\ res.code = "Count" /\ res.offset = 1

\* C13: after free_parse on a handle parse() returned, no allocation that
\* parse() made stays live: the context, its two CheckedExprs and the three
\* C strings input, output and format are all released.
C13_FreeReleasesAll == pc = "freed" => heap = {}

\* the contribution of one atom, read off the VideoInfo fields: the duration
\* for End, the quotient cut toward zero plus start_time (when it is
\* specified) for a frame index or a time, and peer for the other bound
ExpectedContribution(item, info, word, peer) ==
    LET shift == IF info.start_time = AV_NOPTS_VALUE THEN 0 ELSE info.start_time
    IN  CASE item.type = "Keyword" /\ item.k = "End" -> info.duration
          [] item.type = "Keyword" /\ item.k = word -> peer
          [] item.type = "Keyword" /\ item.k \notin {"End", word} -> 0
          [] item.type = "FrameIndex" ->
                (item.v * info.time_base_den)
                    \div (info.fps * info.time_base_num) + shift
          [] item.type = "Timestamp" ->
                (item.v * info.time_base_den)
                    \div (1000 * info.time_base_num) + shift

\* the signed sum of the contributions of atoms i.. of e
RECURSIVE ExpectedSum(_, _, _, _, _)
ExpectedSum(e, info, word, peer, i) ==
    IF i > Len(e.items) THEN 0
    ELSE (IF e.ops[i] = "Add" THEN 1 ELSE -1)
             * ExpectedContribution(e.items[i], info, word, peer)
         + ExpectedSum(e, info, word, peer, i + 1)

\* what a call of fn on the handle is to return for info
ExpectedBound(fn, info) ==
    IF fn = "from"
    THEN ExpectedSum(ctx.start, info, "To",
                     ExpectedSum(ctx.end, info, "From", 0, 1), 1)
    ELSE ExpectedSum(ctx.end, info, "From",
                     ExpectedSum(ctx.start, info, "To", 0, 1), 1)

\* the outermost evaluator call has run its loop to the end
AboutToReturn ==
    /\ pc = "eval" /\ exit_code = -1 /\ Len(stack) = 1
    /\ stack[1].index > Len(bound(stack[1].fn).items)

Info25 == [fps |-> 25, time_base_den |-> 1000, time_base_num |-> 1,
           start_time |-> AV_NOPTS_VALUE, duration |-> 10000]

C15_ExitCodes ==
    /\ (pc \in {"parse_from", "parse_to"} /\ exit_code # -1) => exit_code = 1
    /\ (pc \in {"check_from", "check_to", "cross_reference"} /\ exit_code # -1)
           => exit_code = 2
    /\ (pc = "parse_from" /\ exit_code # -1) => ~parse_expr(cli.from).ok
    /\ (pc = "parse_to" /\ exit_code # -1) => ~parse_expr(cli.to).ok
    /\ pc \notin {"parse_from"} => parse_expr(cli.from).ok
    /\ pc \in {"build", "handle", "freed"} => exit_code = -1
    /\ pc = "handle" => (ctx # Idle /\ parse_expr(cli.to).ok)

\* check_expr has refused the to-bound after the from-bound went through
C15_Witness ==
    /\ pc = "check_to" /\ exit_code = 2
    /\ parse_expr(cli.to).ok
    /\ from_expr # Idle

\* every operator of e lies strictly between the atoms on its two sides
OpsBetweenAtoms(e) ==
    \A i \in 1 .. Len(e.ops) :
        /\ i + 1 <= Len(e.items)
        /\ e.items[i].offset < e.ops[i].offset
        /\ e.ops[i].offset < e.items[i + 1].offset

\* C16 as stated: every Expr parse_expr returns, the one of an empty source
\* included, has |ops| = |items| - 1, each operator strictly between the
\* atoms on its two sides.
C16_OneOpFewer ==
    (lpc = "parsed" /\ res.ok) =>
        (Len(expr.ops) = Len(expr.items) - 1 /\ OpsBetweenAtoms(expr))

\* C16: every Expr parse_expr returns with at least one atom has
\* |ops| = |items| - 1, each operator strictly between the atoms on its two
\* sides; the Expr of an empty or all-space source has no atom and no
\* operator.
C16_OneOpFewerOrEmpty ==
    (lpc = "parsed" /\ res.ok) =>
        IF Len(expr.items) = 0
        THEN Len(expr.ops) = 0 /\ FirstNonSpace(src, 0) = Len(src)
        ELSE Len(expr.ops) = Len(expr.items) - 1 /\ OpsBetweenAtoms(expr)

\* parse_expr has returned three atoms and two operators
C16_Witness ==
    /\ lpc = "parsed" /\ res.ok
    /\ Len(expr.items) = 3 /\ Len(expr.ops) = 2
    /\ expr.ops[2].offset > expr.items[2].offset

\* ---- the atom a text is written as, read off the text itself
RECURSIVE DigitRunEnd(_, _)
DigitRunEnd(s, p) ==
    IF p < Len(s) /\ s[p + 1] \in Digits THEN DigitRunEnd(s, p + 1) ELSE p

\* the text t stands at offset p
StartsWith(s, p, t) ==
    p + Len(t) <= Len(s) /\ SubSeq(s, p + 1, p + Len(t)) = t

\* the atom text is over at offset e: the source ends there, or a space, a
\* tab or an operator follows
Boundary(s, e) == e = Len(s) \/ s[e + 1] \in {" ", "\t", "+", "-"}

NoAtom == [found |-> FALSE]
AtomIs(content, e) == [found |-> TRUE, content |-> content, end |-> e]

\* a text that is an atom only if the source is at a boundary after it
AtomIfBoundary(s, content, e) ==
    IF Boundary(s, e) THEN AtomIs(content, e) ELSE NoAtom

\* the fields of a colon form from offset p on, summed the Horner way:
\* ((f1 * 60) + f2) * 60 + f3 is the sum of field_i * 60^(len-i-1)
RECURSIVE ColonWalk(_, _, _, _)
ColonWalk(s, p, acc, n) ==
    IF DigitRunEnd(s, p) = p THEN [ok |-> FALSE]
    ELSE IF DigitRunEnd(s, p) < Len(s) /\ s[DigitRunEnd(s, p) + 1] = ":"
    THEN ColonWalk(s, DigitRunEnd(s, p) + 1,
                   acc * 60 + DecValue(s, p, DigitRunEnd(s, p)), n + 1)
    ELSE [ok |-> TRUE, end |-> DigitRunEnd(s, p), n |-> n + 1,
          secs |-> acc * 60 + DecValue(s, p, DigitRunEnd(s, p))]

\* the milliseconds of the fraction digits s[p+1 .. e], one to three of them
FractionOf(s, p, e) ==
    DecValue(s, p, e) * (CASE e - p = 1 -> 100 [] e - p = 2 -> 10 [] e - p = 3 -> 1)

\* a colon form of two or three fields, w what ColonWalk found, with an
\* optional fraction of one to three digits
ColonAtom(s, w) ==
    IF ~w.ok \/ w.n \notin {2, 3} THEN NoAtom
    ELSE IF StartsWith(s, w.end, <<".">>)
    THEN IF DigitRunEnd(s, w.end + 1) - (w.end + 1) \in 1 .. 3
         THEN AtomIfBoundary(s,
                  Timestamp(w.secs * 1000
                            + FractionOf(s, w.end + 1,
                                         DigitRunEnd(s, w.end + 1))),
                  DigitRunEnd(s, w.end + 1))
         ELSE NoAtom
    ELSE AtomIfBoundary(s, Timestamp(w.secs * 1000), w.end)

\* an atom that begins with the number s[p+1 .. e]
NumberAtom(s, p, e) ==
    IF StartsWith(s, e, <<"f">>)
    THEN AtomIfBoundary(s, FrameIndex(DecValue(s, p, e)), e + 1)
    ELSE IF StartsWith(s, e, <<"m", "s">>)
    THEN AtomIfBoundary(s, Timestamp(DecValue(s, p, e)), e + 2)
    ELSE IF StartsWith(s, e, <<"s">>)
    THEN AtomIfBoundary(s, Timestamp(DecValue(s, p, e) * 1000), e + 1)
    ELSE IF /\ StartsWith(s, e, <<".">>)
            /\ DigitRunEnd(s, e + 1) - (e + 1) \in 1 .. 3
            /\ StartsWith(s, DigitRunEnd(s, e + 1), <<"s">>)
    THEN AtomIfBoundary(s,
             Timestamp(DecValue(s, p, e) * 1000
                       + FractionOf(s, e + 1, DigitRunEnd(s, e + 1))),
             DigitRunEnd(s, e + 1) + 1)
    ELSE IF StartsWith(s, e, <<":">>)
    THEN ColonAtom(s, ColonWalk(s, p, 0, 0))
    ELSE NoAtom

\* the atom written at offset p of s
WrittenAtom(s, p) ==
    IF DigitRunEnd(s, p) > p THEN NumberAtom(s, p, DigitRunEnd(s, p))
    ELSE IF StartsWith(s, p, <<"e", "n", "d">>)
    THEN AtomIfBoundary(s, Keyword("End"), p + 3)
    ELSE IF StartsWith(s, p, <<"f", "r", "o", "m">>)
    THEN AtomIfBoundary(s, Keyword("From"), p + 4)
    ELSE IF StartsWith(s, p, <<"t", "o">>)
    THEN AtomIfBoundary(s, Keyword("To"), p + 2)
    ELSE NoAtom

\* parse_item returned the atom a at the offset start
ReturnsAtom(a, start) ==
    /\ res.ok
    /\ res.val # None
    /\ res.val.content = a.content
    /\ res.val.offset = start
    /\ res.val.length = a.end - start
    /\ res.rest = a.end

\* C17: on a source that, after its leading spaces, is written as a frame
\* index, a second or millisecond timestamp, a keyword or a colon form of
\* two or three fields, parse_item returns the value the text stands for,
\* a span that starts at the first non-space byte and is as long as the
\* atom text, and a remainder that starts right after the atom.
C17_AtomRoundTrip ==
    lpc = "item" =>
        \E start \in {FirstNonSpace(src, 0)} :
            \E a \in {WrittenAtom(src, start)} :
                a.found => ReturnsAtom(a, start)

\* parse_item has returned the colon form of `  2:3.45 + 1f`
C17_Witness ==
    /\ lpc = "item"
    /\ src = <<" ", " ", "2", ":", "3", ".", "4", "5", " ", "+", " ", "1", "f">>
    /\ WrittenAtom(src, 2) = AtomIs(Timestamp(123450), 8)
    /\ ReturnsAtom(WrittenAtom(src, 2), 2)

\* the text at offset p begins like no atom: neither a digit nor a keyword
NoAtomStart(s, p) ==
    /\ p < Len(s)
    /\ s[p + 1] \notin Digits
    /\ ~StartsWith(s, p, <<"e", "n", "d">>)
    /\ ~StartsWith(s, p, <<"f", "r", "o", "m">>)
    /\ ~StartsWith(s, p, <<"t", "o">>)

\* Reads the source as atoms and operators from offset p on, up to the
\* first operator that no atom follows: "dangling" when only spaces or
\* the end of the source follow the operator at offset op, "garbage" when
\* the text at offset at begins like no atom.
RECURSIVE OpWalk(_, _)
RECURSIVE OpWalkAfterAtom(_, _)
RECURSIVE OpWalkAfterOp(_, _, _)
OpWalk(s, p) ==
    IF WrittenAtom(s, p).found
    THEN OpWalkAfterAtom(s, FirstNonSpace(s, WrittenAtom(s, p).end))
    ELSE [kind |-> "other"]

OpWalkAfterAtom(s, q) ==
    IF q < Len(s) /\ s[q + 1] \in {"+", "-"}
    THEN OpWalkAfterOp(s, q, FirstNonSpace(s, q + 1))
    ELSE [kind |-> "other"]

OpWalkAfterOp(s, q, r) ==
    IF r = Len(s) THEN [kind |-> "dangling", op |-> q, at |-> r]
    ELSE IF NoAtomStart(s, r) THEN [kind |-> "garbage", op |-> q, at |-> r]
    ELSE OpWalk(s, r)

\* C18 as stated: whenever parse_expr has consumed an operator that no atom
\* follows (the end of the source, spaces only, another operator or other
\* text that is no atom), it fails with the underlying kind Escaped at the
\* offset of that operator.
C18_NoAtomEscaped ==
    lpc = "parsed" =>
        \E w \in {OpWalk(src, FirstNonSpace(src, 0))} :
            w.kind \in {"dangling", "garbage"} =>
                (~res.ok /\ res.code = "Escaped" /\ res.offset = w.op)

\* C18: when parse_expr has consumed an operator and only spaces or the
\* end of the source follow, it fails with the underlying kind Escaped at
\* the offset of that operator; when another operator or other text that
\* begins like no atom follows, it fails with parse_item's error on that
\* text: kind Keywords, underlying kind Tag, at the offset of the text.
C18_DanglingEscaped ==
    lpc = "parsed" =>
        \E w \in {OpWalk(src, FirstNonSpace(src, 0))} :
            /\ w.kind = "dangling" =>
                   (/\ ~res.ok
                    /\ res.sev = "Failure" /\ res.code = "Escaped"
                    /\ res.offset = w.op)
            /\ w.kind = "garbage" =>
                   (/\ ~res.ok
                    /\ res.kind = "Keywords" /\ res.code = "Tag"
                    /\ res.offset = w.at)

\* parse_expr has failed on the operator of `1f +  `, which spaces follow
C18_Witness ==
    /\ lpc = "parsed"
    /\ src = <<"1", "f", " ", "+", " ", " ">>
    /\ OpWalk(src, 0).kind = "dangling"
    /\ ~res.ok /\ res.code = "Escaped" /\ res.offset = 3

\* the sign the atom i of a parsed Expr has: the operator before it, and
\* plus for the first atom
InputSign(e, i) == IF i = 1 \/ e.ops[i - 1].content = "Add" THEN 1 ELSE -1

\* the signed sum of the atoms of kind type among atoms i.. of a parsed Expr
RECURSIVE InputKindSum(_, _, _)
InputKindSum(e, type, i) ==
    IF i > Len(e.items) THEN 0
    ELSE (IF e.items[i].content.type = type
          THEN InputSign(e, i) * e.items[i].content.v ELSE 0)
         + InputKindSum(e, type, i + 1)

\* the signed value of the atom i of an Expr that has one operator per atom
SignedValue(e, i) ==
    IF e.ops[i].content = "Add" THEN e.items[i].content.v
    ELSE -e.items[i].content.v

\* C19: for FrameIndex and for Timestamp, when the parsed Expr has atoms of
\* the kind, optimize_expr leaves exactly one, and its signed value (plus
\* under Add, minus under Sub) is the signed sum of the atoms of that kind
\* in the parsed Expr, the first atom counted as positive; no atom is left
\* with a negative value, so no fold subtracted the larger from the smaller.
C19_FoldKeepsSum ==
    OptimizedOnce =>
        \A type \in {"FrameIndex", "Timestamp"} :
            /\ (OfType(hist[1].items, type) = {}) = (OfType(expr.items, type) = {})
            /\ \A i \in OfType(expr.items, type) :
                   /\ SignedValue(expr, i) = InputKindSum(hist[1], type, 1)
                   /\ expr.items[i].content.v >= 0

\* optimize_expr has folded `2f - 1s - 3f - 2s` into -1f and -3s
C19_Witness ==
    /\ OptimizedOnce
    /\ Strip(hist[1].items)
         = <<FrameIndex(2), Timestamp(1000), FrameIndex(3), Timestamp(2000)>>
    /\ Strip(expr.items) = <<FrameIndex(1), Timestamp(3000)>>
    /\ Strip(expr.ops) = <<"Sub", "Sub">>

\* the atoms of a parsed Expr, each with its span and the sign it has in
\* the source
InputSigned(e) ==
    [i \in 1 .. Len(e.items) |->
        [type |-> e.items[i].content.type, k |-> e.items[i].content.k,
         offset |-> e.items[i].offset, length |-> e.items[i].length,
         sign |-> InputSign(e, i)]]

\* the atoms of an Expr that has one operator per atom, each with its span
\* and the sign of its operator
OutputSigned(e) ==
    [i \in 1 .. Min(Len(e.items), Len(e.ops)) |->
        [type |-> e.items[i].content.type, k |-> e.items[i].content.k,
         offset |-> e.items[i].offset, length |-> e.items[i].length,
         sign |-> IF e.ops[i].content = "Add" THEN 1 ELSE -1]]

IsKeyword(x) == x.type = "Keyword"

\* C20: optimize_expr leaves the keywords alone: the keyword atoms of the
\* optimized Expr are those of the parsed Expr, in the same order, each
\* with the sign it had in the source (Add for a first atom), whatever was
\* folded around or across them.
C20_KeywordsUntouched ==
    OptimizedOnce =>
        /\ SelectSeq(OutputSigned(expr), IsKeyword)
             = SelectSeq(InputSigned(hist[1]), IsKeyword)
        /\ Cardinality(OfType(expr.items, "Keyword"))
             = Cardinality(OfType(hist[1].items, "Keyword"))

\* optimize_expr has folded the two times of `1s - to + 2s` across the
\* keyword between them
C20_Witness ==
    /\ OptimizedOnce
    /\ Strip(hist[1].items) = <<Timestamp(1000), Keyword("To"), Timestamp(2000)>>
    /\ Strip(hist[1].ops) = <<"Sub", "Add">>
    /\ Strip(expr.items) = <<Timestamp(3000), Keyword("To")>>
    /\ Strip(expr.ops) = <<"Add", "Sub">>

\* C21: for every pair of expressions parse() accepts and every VideoInfo,
\* get_from_timestamp and get_to_timestamp return a value and never reach
\* an unreachable!() branch, also when the from-expression mentions `from`
\* or the to-expression mentions `to`.
C21_NoUnreachable == pc = "eval" => exit_code # AbortCode

\* C22: check_expr does not answer "Overflow: all is sub" on an optimized
\* expression whose operator list holds an Add, the expression of an empty
\* or all-space source included.
C22_OverflowOnlyWithoutAdd ==
    (lpc = "checked"
     /\ \E i \in 1 .. Len(expr.ops) : expr.ops[i].content = "Add") =>
        ~(~chk.ok /\ chk.msg = "Overflow: all is sub")

\* what the three passes make of a source, computed on the source alone
Parses(source) == parse_expr(source).ok
Checks(source) ==
    IF Parses(source)
    THEN check_expr(optimize_expr(parse_expr(source).val)).ok
    ELSE FALSE

\* parse() is still at work on the from source
OnFrom == pc \in {"parse_from", "optimize_from", "check_from"}

\* C23: parse() is through with the from source (parse, optimize, check)
\* before it reads the to source, and the first failure ends the process:
\* when the from source fails check_expr and the to source does not parse,
\* the exit code is 2 and the to source is never parsed; the guard on
\* cross references is reached only after both sources passed check_expr;
\* once the process has ended nothing changes any more.
C23_FromBeforeTo ==
    /\ [](/\ OnFrom => to_expr = Idle
          /\ ~OnFrom => Checks(cli.from)
          /\ (/\ exit_code # -1 /\ OnFrom
              /\ Parses(cli.from) /\ ~Parses(cli.to)) =>
                 (exit_code = 2 /\ pc = "check_from")
          /\ pc \in {"cross_reference", "build", "handle", "eval", "freed"}
                 => Checks(cli.to))
    /\ [][exit_code # -1 => UNCHANGED vars]_vars

\* parse() has ended with code 2 on a from source that check_expr refuses,
\* without reading a to source that does not parse
C23_Witness ==
    /\ pc = "check_from" /\ exit_code = 2
    /\ Parses(cli.from) /\ ~Checks(cli.from)
    /\ ~Parses(cli.to)
    /\ to_expr = Idle

\* C24: for every pair of expressions parse() accepts and every VideoInfo
\* with a positive fps, a positive time base, a duration that is not
\* negative and no start_time, the timestamp an evaluator call returns is
\* not negative.
C24_NonNegative ==
    (/\ AboutToReturn
     /\ stack[1].info.fps > 0
     /\ stack[1].info.time_base_num > 0 /\ stack[1].info.time_base_den > 0
     /\ stack[1].info.duration >= 0
     /\ stack[1].info.start_time = AV_NOPTS_VALUE) =>
        stack[1].pts >= 0

=============================================================================
